---- MODULE Spec2Model ----
(***************************************************************************)
(* Vision Calibrator: the recommendation engine (calculateRecommendations) *)
(* and the configuration serializer (generateEditorConfig) of              *)
(* src/lib/calculator.ts, driven by the Calibrator component's state and   *)
(* memoised calls (src/unnamed/part_000).                                  *)
(*                                                                         *)
(* Units.  Sphere and cylinder are held in quarter dioptres (-24 is        *)
(* -6.00 D); a mean of two of them is held in eighths of a dioptre, so     *)
(* that (a + b) / 2 is exact.  Axes are whole degrees, their mean is held  *)
(* in half degrees.  Inside the engine fontSize and lineHeight are held    *)
(* in hundredths (1600 is 16 px, 150 is 1.5); the returned record holds    *)
(* fontSize in px and lineHeight in tenths, as the final rounding leaves   *)
(* them.                                                                   *)
(***************************************************************************)
EXTENDS Integers, Sequences, FiniteSets, TLC

VARIABLES
    conditions,       \* the VisualConditions record held by the caller
    declared,         \* history: the flags as the caller last wrote them
    colorVision,      \* the selected ColorVisionType
    prescription,     \* the six fields of the prescription form, parsed
    currentSettings,  \* CurrentSettings, or undefined
    selectedEditor,   \* the selected EditorType
    recommendations,  \* the memoised Recommendation, or undefined
    configString,     \* the memoised configuration text, or undefined
    calls,            \* times the engine ran on the present inputs
    themeTable        \* the theme arrays of COLOR_VISION_THEMES as they stand

vars == <<conditions, declared, colorVision, prescription, currentSettings,
          selectedEditor, recommendations, configString, calls, themeTable>>

-----------------------------------------------------------------------------
(* Bounds of the model                                                     *)

\* largest sphere magnitude entered, in quarter dioptres (28 = 7.00 D)
MaxSphere == 28

\* how often the engine is re-run on unchanged inputs
MaxCalls == 2

-----------------------------------------------------------------------------
(* Values                                                                  *)

\* An optional value is a sequence of at most one element: undefined is
\* the empty one, Some(x) holds x, and Val gives x back.
undefined == <<>>

Some(x) == <<x>>

Val(o) == o[1]

\* the result of parseFloat on a text that is not a number; parseFloat of
\* a numeral n is Some(n)
NaN == <<>>

isNaN(v) == v = NaN

ConditionKeys ==
    {"myopia", "hyperopia", "astigmatism", "eyeStrain", "blurOrGhosting",
     "lightSensitivity", "visualCrowding"}

VisualConditions == [ConditionKeys -> BOOLEAN]

ColorVisionType ==
    {"normal", "deuteranopia", "protanopia", "tritanopia", "achromatopsia"}

EditorType == {"vscode", "zed", "neovim", "jetbrains", "sublime"}

ASTIGMATISM_FRIENDLY_FONTS ==
    <<"IBM Plex Mono", "JetBrains Mono", "Fira Code", "Input Mono",
      "Atkinson Hyperlegible Mono", "Source Code Pro">>

COLOR_VISION_THEMES ==
    [normal |-> [themes |-> <<>>, rationale |-> "No specific theme requirements"],
     deuteranopia |->
        [themes |-> <<"Solarized Dark", "Solarized Light", "One Dark",
                      "GitHub Dark", "Catppuccin Mocha">>,
         rationale |-> "Blue/yellow color schemes work best"],
     protanopia |->
        [themes |-> <<"Solarized Dark", "Solarized Light", "Nord",
                      "Tokyo Night">>,
         rationale |-> "Blue-dominant themes work well"],
     tritanopia |->
        [themes |-> <<"Monokai", "Dracula", "Gruvbox", "Material Theme">>,
         rationale |-> "Warm color schemes work best"],
     achromatopsia |->
        [themes |-> <<"High Contrast", "GitHub Light", "Paper">>,
         rationale |-> "Maximum luminance contrast"]]

-----------------------------------------------------------------------------
(* Arithmetic of the engine                                                *)

Max(a, b) == IF a >= b THEN a ELSE b

Abs(a) == IF a < 0 THEN -a ELSE a

\* as MathRound, but rounding down
MathRound_floor(n, d) == n \div d

\* Math.round of n / d (d > 0): the nearest integer, halves towards +infinity
MathRound(n, d) == (2 * n + d) \div (2 * d)

\* Number.prototype.toFixed(2) of a value in eighths: the signed number of
\* hundredths printed, halves away from zero
toFixed2(eighths) ==
    LET h == (Abs(eighths) * 25 + 1) \div 2
    IN  IF eighths < 0 THEN -h ELSE h

\* one entry of explanations: the fixed text, the numbers and the name
\* substituted into it
Explanation(text, nums, name) == [text |-> text, nums |-> nums, name |-> name]

ResearchCitation(finding, source, year) ==
    [finding |-> finding, source |-> source, year |-> year]

-----------------------------------------------------------------------------
(* parsedPrescription: the form's fields to the engine's Prescription      *)

\* x || 0 on a parsed number: NaN and 0 both give 0
OrZero(v) == IF isNaN(v) \/ Val(v) = 0 THEN 0 ELSE Val(v)

parsedPrescription(form) ==
    IF isNaN(form.rightSphere) /\ isNaN(form.leftSphere)
    THEN undefined
    ELSE Some([rightEye |-> [sphere   |-> OrZero(form.rightSphere),
                             cylinder |-> OrZero(form.rightCylinder),
                             axis     |-> OrZero(form.rightAxis)],
               leftEye  |-> [sphere   |-> OrZero(form.leftSphere),
                             cylinder |-> OrZero(form.leftCylinder),
                             axis     |-> OrZero(form.leftAxis)]])

-----------------------------------------------------------------------------
(* calculateRecommendations                                                *)

\* as InitialValues, but starting from the form's default font size of 14
InitialValues_formDefault ==
    [fontSize |-> 1400, lineHeight |-> 150, fontWeight |-> 400,
     cursorStyle |-> "bar", suggestedFonts |-> <<>>, suggestedThemes |-> <<>>,
     explanations |-> <<>>, research |-> <<>>]

\* the local values at the start of a call
InitialValues ==
    [fontSize |-> 1600, lineHeight |-> 150, fontWeight |-> 400,
     cursorStyle |-> "bar", suggestedFonts |-> <<>>, suggestedThemes |-> <<>>,
     explanations |-> <<>>, research |-> <<>>]

\* mean sphere in eighths of a dioptre; 0 without a prescription
avgSphere(p) ==
    IF p = undefined THEN 0
    ELSE Val(p).rightEye.sphere + Val(p).leftEye.sphere

\* |mean cylinder| in eighths of a dioptre
avgCylinder(p) == Abs(Val(p).rightEye.cylinder + Val(p).leftEye.cylinder)

\* as hasSignificantAstigmatism, but with the threshold exclusive
hasSignificantAstigmatism_exclusive(p) ==
    IF p = undefined THEN FALSE ELSE avgCylinder(p) > 4

hasSignificantAstigmatism(p) ==
    IF p = undefined THEN FALSE ELSE avgCylinder(p) >= 4

\* mean axis in half degrees; 0 without a prescription
astigmatismAxis(p) ==
    IF p = undefined THEN 0
    ELSE Val(p).rightEye.axis + Val(p).leftEye.axis

\* as AutoDetect, but with the sphere thresholds inclusive
AutoDetect_inclusiveSphere(c, p) ==
    IF p = undefined THEN c
    ELSE [c EXCEPT
            !.myopia = IF avgSphere(p) <= -4 /\ ~c.myopia THEN TRUE ELSE @,
            !.hyperopia = IF avgSphere(p) >= 4 /\ ~c.hyperopia THEN TRUE ELSE @,
            !.astigmatism =
                IF hasSignificantAstigmatism(p) /\ ~c.astigmatism
                THEN TRUE ELSE @]

\* the conditions record as the call leaves it
AutoDetect(c, p) ==
    IF p = undefined THEN c
    ELSE [c EXCEPT
            !.myopia = IF avgSphere(p) < -4 /\ ~c.myopia THEN TRUE ELSE @,
            !.hyperopia = IF avgSphere(p) > 4 /\ ~c.hyperopia THEN TRUE ELSE @,
            !.astigmatism =
                IF hasSignificantAstigmatism(p) /\ ~c.astigmatism
                THEN TRUE ELSE @]

\* as MyopiaRule, but with the tier thresholds exclusive
MyopiaRule_exclusiveTiers(s, c, p) ==
    IF ~c.myopia THEN s
    ELSE [s EXCEPT
            !.fontSize = IF avgSphere(p) < -48 THEN 2000
                         ELSE IF avgSphere(p) < -24 THEN 1800
                         ELSE 1700,
            !.cursorStyle = "block"]

\* if (conditions.myopia): the tier by mean sphere, the block cursor
MyopiaRule(s, c, p) ==
    IF ~c.myopia THEN s
    ELSE [s EXCEPT
            !.fontSize = IF avgSphere(p) <= -48 THEN 2000
                         ELSE IF avgSphere(p) <= -24 THEN 1800
                         ELSE 1700,
            !.cursorStyle = "block",
            !.explanations =
                @ \o <<IF avgSphere(p) <= -48
                       THEN Explanation("High myopia", <<toFixed2(avgSphere(p)), 20>>, "")
                       ELSE IF avgSphere(p) <= -24
                       THEN Explanation("Moderate myopia", <<toFixed2(avgSphere(p)), 18>>, "")
                       ELSE Explanation("Mild myopia detected", <<17>>, ""),
                       Explanation("Block cursor recommended", <<>>, "")>>,
            !.research =
                Append(@, ResearchCitation(
                    "Font sizes below 16pt cause viewing distances under 33cm",
                    "Wang K, et al. BMJ Open Ophthalmology", 2023))]

\* as HyperopiaRule, but assigning the font size 17
HyperopiaRule_assign(s, c) ==
    IF ~c.hyperopia THEN s
    ELSE [s EXCEPT
            !.fontSize = 1700,
            !.lineHeight = Max(@, 160),
            !.explanations = Append(@, Explanation("Hyperopia detected", <<>>, ""))]

\* if (conditions.hyperopia)
HyperopiaRule(s, c) ==
    IF ~c.hyperopia THEN s
    ELSE [s EXCEPT
            !.fontSize = Max(@, 1700),
            !.lineHeight = Max(@, 160),
            !.explanations = Append(@, Explanation("Hyperopia detected", <<>>, ""))]

\* as axisNote, but with the bounds 160, 20, 70 and 110 excluded
axisNote_exclusive(axis) ==
    IF axis > 320 \/ axis < 40 THEN "with-the-rule"
    ELSE IF axis > 140 /\ axis < 220 THEN "against-the-rule"
    ELSE "oblique"

\* the note chosen from the mean axis (half degrees)
axisNote(axis) ==
    IF axis >= 320 \/ axis <= 40 THEN "with-the-rule"
    ELSE IF axis >= 140 /\ axis <= 220 THEN "against-the-rule"
    ELSE "oblique"

\* as AstigmatismRule, but suggesting the first three fonts
AstigmatismRule_firstThree(s, c, p) ==
    IF ~c.astigmatism THEN s
    ELSE [s EXCEPT
            !.lineHeight = Max(@, 160),
            !.suggestedFonts = SubSeq(ASTIGMATISM_FRIENDLY_FONTS, 1, 3),
            !.explanations =
                Append(@, Explanation("Astigmatism", <<16>>, axisNote(astigmatismAxis(p)))),
            !.research =
                @ \o <<ResearchCitation(
                           "Astigmatic blur interacts with typography",
                           "PMC6181807 - Astigmatic axis and visual acuity", 2018),
                       ResearchCitation(
                           "0.5-1.0D uncorrected astigmatism increases digital eye strain",
                           "Rosenfield M. Ophthalmic and Physiological Optics", 2016)>>]

\* if (conditions.astigmatism)
AstigmatismRule(s, c, p) ==
    IF ~c.astigmatism THEN s
    ELSE [s EXCEPT
            !.lineHeight = Max(@, 160),
            !.suggestedFonts = ASTIGMATISM_FRIENDLY_FONTS,
            !.explanations =
                Append(@, Explanation("Astigmatism", <<16>>, axisNote(astigmatismAxis(p)))),
            !.research =
                @ \o <<ResearchCitation(
                           "Astigmatic blur interacts with typography",
                           "PMC6181807 - Astigmatic axis and visual acuity", 2018),
                       ResearchCitation(
                           "0.5-1.0D uncorrected astigmatism increases digital eye strain",
                           "Rosenfield M. Ophthalmic and Physiological Optics", 2016)>>]

\* as EyeStrainRule, but raising the font size to a floor of 17 px
EyeStrainRule_floor(s, c) ==
    IF ~c.eyeStrain THEN s
    ELSE [s EXCEPT
            !.fontSize = Max(@, 1700),
            !.lineHeight = Max(@, 160),
            !.explanations = Append(@, Explanation("Eye strain", <<>>, "")),
            !.research =
                Append(@, ResearchCitation(
                    "Larger font sizes significantly reduce accommodation lag",
                    "Nanotechnology Perceptions - Font Size and Accommodation", 2024))]

\* if (conditions.eyeStrain)
EyeStrainRule(s, c) ==
    IF ~c.eyeStrain THEN s
    ELSE [s EXCEPT
            !.fontSize = Max(@, @ + 100),
            !.lineHeight = Max(@, 160),
            !.explanations = Append(@, Explanation("Eye strain", <<>>, "")),
            !.research =
                Append(@, ResearchCitation(
                    "Larger font sizes significantly reduce accommodation lag",
                    "Nanotechnology Perceptions - Font Size and Accommodation", 2024))]

\* as BlurOrGhostingRule, but raising the font size to a floor of 17 px
BlurOrGhostingRule_floor(s, c) ==
    IF ~c.blurOrGhosting THEN s
    ELSE [s EXCEPT
            !.fontSize = Max(@, 1700),
            !.cursorStyle = "block",
            !.fontWeight = IF ~c.lightSensitivity THEN 500 ELSE @,
            !.explanations =
                Append(@, IF ~c.lightSensitivity
                          THEN Explanation("Blur/ghosting", <<500>>, "")
                          ELSE Explanation("Blur/ghosting with light sensitivity", <<400>>, ""))]

\* if (conditions.blurOrGhosting)
BlurOrGhostingRule(s, c) ==
    IF ~c.blurOrGhosting THEN s
    ELSE [s EXCEPT
            !.fontSize = Max(@, @ + 100),
            !.cursorStyle = "block",
            !.fontWeight = IF ~c.lightSensitivity THEN 500 ELSE @,
            !.explanations =
                Append(@, IF ~c.lightSensitivity
                          THEN Explanation("Blur/ghosting", <<500>>, "")
                          ELSE Explanation("Blur/ghosting with light sensitivity", <<400>>, ""))]

\* as LightSensitivityRule, but choosing the light weight 300
LightSensitivityRule_lighter(s, c) ==
    IF ~c.lightSensitivity THEN s
    ELSE [s EXCEPT
            !.fontWeight = 300,
            !.explanations = Append(@, Explanation("Light sensitivity", <<400>>, ""))]

\* if (conditions.lightSensitivity)
LightSensitivityRule(s, c) ==
    IF ~c.lightSensitivity THEN s
    ELSE [s EXCEPT
            !.fontWeight = 400,
            !.explanations = Append(@, Explanation("Light sensitivity", <<400>>, ""))]

\* as VisualCrowdingRule, but suggesting the whole font list
VisualCrowdingRule_allFonts(s, c) ==
    IF ~c.visualCrowding THEN s
    ELSE [s EXCEPT
            !.lineHeight = Max(@, 170),
            !.suggestedFonts =
                IF Len(@) = 0 THEN ASTIGMATISM_FRIENDLY_FONTS ELSE @,
            !.explanations = Append(@, Explanation("Visual crowding", <<17>>, "")),
            !.research =
                Append(@, ResearchCitation(
                    "Increased line spacing reduces crowding effects",
                    "Chung STL. Optometry and Vision Science", 2004))]

\* if (conditions.visualCrowding)
VisualCrowdingRule(s, c) ==
    IF ~c.visualCrowding THEN s
    ELSE [s EXCEPT
            !.lineHeight = Max(@, 170),
            !.suggestedFonts =
                IF Len(@) = 0 THEN SubSeq(ASTIGMATISM_FRIENDLY_FONTS, 1, 3) ELSE @,
            !.explanations = Append(@, Explanation("Visual crowding", <<17>>, "")),
            !.research =
                Append(@, ResearchCitation(
                    "Increased line spacing reduces crowding effects",
                    "Chung STL. Optometry and Vision Science", 2004))]

\* as ColorVisionRule, but keeping the first three themes only
ColorVisionRule_firstThree(s, cv) ==
    IF cv = "normal" THEN s
    ELSE [s EXCEPT
            !.suggestedThemes = SubSeq(COLOR_VISION_THEMES[cv].themes, 1, 3)]

\* if (colorVision !== 'normal')
ColorVisionRule(s, cv) ==
    IF cv = "normal" THEN s
    ELSE [s EXCEPT
            !.suggestedThemes = COLOR_VISION_THEMES[cv].themes,
            !.explanations =
                Append(@, Explanation(COLOR_VISION_THEMES[cv].rationale, <<>>, cv)),
            !.research =
                Append(@, ResearchCitation(
                    "Blue/orange palettes work well for red-green CVD",
                    "WCAG 2.1 / Interaction Design Foundation", 2023))]

\* as CurrentSettingsRule, but starting from the current font size when it
\* is the larger one
CurrentSettingsRule_seed(s, cs) ==
    IF cs = undefined THEN s
    ELSE IF Val(cs).fontSize * 100 < s.fontSize
    THEN [s EXCEPT
            !.explanations =
                Append(@, Explanation("Your current font size is below the recommended",
                                      <<Val(cs).fontSize, s.fontSize>>, ""))]
    ELSE [s EXCEPT !.fontSize = Val(cs).fontSize * 100]

\* if (currentSettings): the comparison explanation
CurrentSettingsRule(s, cs) ==
    IF cs = undefined THEN s
    ELSE IF Val(cs).fontSize * 100 < s.fontSize
    THEN [s EXCEPT
            !.explanations =
                Append(@, Explanation("Your current font size is below the recommended",
                                      <<Val(cs).fontSize, s.fontSize>>, ""))]
    ELSE s

\* as FinalEntries, but with the line-height citation put first
FinalEntries_citationFirst(s) ==
    [s EXCEPT
        !.research =
            <<ResearchCitation(
                "Reading speed and accuracy peak at 1.2-1.5x line height",
                "Nielsen Norman Group / Journal of Experimental Psychology", 2023)>>
            \o @,
        !.explanations = Append(@, Explanation("Remember the 20-20-20 rule", <<>>, ""))]

\* the line-height citation and the 20-20-20 reminder, always
FinalEntries(s) ==
    [s EXCEPT
        !.research =
            Append(@, ResearchCitation(
                "Reading speed and accuracy peak at 1.2-1.5x line height",
                "Nielsen Norman Group / Journal of Experimental Psychology", 2023)),
        !.explanations = Append(@, Explanation("Remember the 20-20-20 rule", <<>>, ""))]

\* as Recommendation, but with lineHeight rounded to a whole number
Recommendation_wholeLineHeight(s) ==
    [fontSize |-> MathRound(s.fontSize, 100),
     lineHeight |-> 10 * MathRound(s.lineHeight, 100),
     fontWeight |-> s.fontWeight,
     cursorStyle |-> s.cursorStyle,
     suggestedFonts |-> s.suggestedFonts,
     suggestedThemes |-> s.suggestedThemes,
     explanations |-> s.explanations,
     research |-> s.research]

\* the returned record: fontSize rounded to px, lineHeight to tenths
Recommendation(s) ==
    [fontSize |-> MathRound(s.fontSize, 100),
     lineHeight |-> MathRound(s.lineHeight, 10),
     fontWeight |-> s.fontWeight,
     cursorStyle |-> s.cursorStyle,
     suggestedFonts |-> s.suggestedFonts,
     suggestedThemes |-> s.suggestedThemes,
     explanations |-> s.explanations,
     research |-> s.research]

\* as ApplyRules, but leaving out the blur/ghosting rule
ApplyRules_withoutBlur(c, cv, p, cs) ==
    LET s1 == MyopiaRule(InitialValues, c, p)
        s2 == HyperopiaRule(s1, c)
        s3 == AstigmatismRule(s2, c, p)
        s4 == EyeStrainRule(s3, c)
        s5 == s4
        s6 == LightSensitivityRule(s5, c)
        s7 == VisualCrowdingRule(s6, c)
        s8 == ColorVisionRule(s7, cv)
        s9 == CurrentSettingsRule(s8, cs)
    IN  Recommendation(FinalEntries(s9))

\* the rules in their order, on the flags c
ApplyRules(c, cv, p, cs) ==
    LET s1 == MyopiaRule(InitialValues, c, p)
        s2 == HyperopiaRule(s1, c)
        s3 == AstigmatismRule(s2, c, p)
        s4 == EyeStrainRule(s3, c)
        s5 == BlurOrGhostingRule(s4, c)
        s6 == LightSensitivityRule(s5, c)
        s7 == VisualCrowdingRule(s6, c)
        s8 == ColorVisionRule(s7, cv)
        s9 == CurrentSettingsRule(s8, cs)
    IN  Recommendation(FinalEntries(s9))

\* as calculateRecommendations, but with the rules reading the flags as
\* they were passed, before the auto-detection wrote to them
calculateRecommendations_staleFlags(c, cv, p, cs) ==
    [conditions |-> AutoDetect(c, p),
     result |-> ApplyRules(c, cv, p, cs)]

\* a call: the conditions record as it is left, and the returned record
calculateRecommendations(c, cv, p, cs) ==
    [conditions |-> AutoDetect(c, p),
     result |-> ApplyRules(AutoDetect(c, p), cv, p, cs)]

-----------------------------------------------------------------------------
(* generateEditorConfig                                                    *)
(* A text is a sequence of lines; a line is a key and the characters of    *)
(* its value (a numeral is spelled digit by digit, a JSON string stands    *)
(* between two quote characters).                                          *)

Line(key, value) == [key |-> key, value |-> value]

Quote == "\""

DigitChars == <<"0", "1", "2", "3", "4", "5", "6", "7", "8", "9">>

\* the decimal digits of a natural number, most significant first
RECURSIVE Digits(_)
Digits(n) ==
    IF n < 10 THEN <<DigitChars[n + 1]>>
    ELSE Append(Digits(n \div 10), DigitChars[(n % 10) + 1])

\* the characters JavaScript prints for a whole number of px or a weight
NumberToString(n) == IF n < 0 THEN <<"-">> \o Digits(-n) ELSE Digits(n)

\* as TenthsToString, but printing the whole part only
TenthsToString_whole(t) == NumberToString(t \div 10)

\* the characters JavaScript prints for a number held in tenths: 15 is 1.5,
\* 20 is 2
TenthsToString(t) ==
    IF t % 10 = 0 THEN NumberToString(t \div 10)
    ELSE Digits(t \div 10) \o <<".">> \o Digits(t % 10)

\* a JSON string literal
JsonString(chars) == <<Quote>> \o chars \o <<Quote>>

\* theme.toLowerCase().replace(/\s+/g, '-')
Slug(theme) ==
    CASE theme = "Solarized Dark" -> "solarized-dark"
      [] theme = "Solarized Light" -> "solarized-light"
      [] theme = "One Dark" -> "one-dark"
      [] theme = "GitHub Dark" -> "github-dark"
      [] theme = "Catppuccin Mocha" -> "catppuccin-mocha"
      [] theme = "Nord" -> "nord"
      [] theme = "Tokyo Night" -> "tokyo-night"
      [] theme = "Monokai" -> "monokai"
      [] theme = "Dracula" -> "dracula"
      [] theme = "Gruvbox" -> "gruvbox"
      [] theme = "Material Theme" -> "material-theme"
      [] theme = "High Contrast" -> "high-contrast"
      [] theme = "GitHub Light" -> "github-light"
      [] theme = "Paper" -> "paper"

\* as FontOf, but with Fira Code as the default
FontOf_firaCode(r) ==
    IF Len(r.suggestedFonts) = 0 THEN "Fira Code" ELSE r.suggestedFonts[1]

\* suggestedFonts[0] || 'JetBrains Mono'
FontOf(r) ==
    IF Len(r.suggestedFonts) = 0 THEN "JetBrains Mono" ELSE r.suggestedFonts[1]

\* as ThemeOf, but taking the last suggested theme
ThemeOf_last(r) ==
    IF Len(r.suggestedThemes) = 0 THEN undefined
    ELSE Some(r.suggestedThemes[Len(r.suggestedThemes)])

\* suggestedThemes[0], undefined when there is none
ThemeOf(r) ==
    IF Len(r.suggestedThemes) = 0 THEN undefined ELSE Some(r.suggestedThemes[1])

VscodeConfig(r) ==
    <<Line("editor.fontSize", NumberToString(r.fontSize)),
      Line("editor.lineHeight", TenthsToString(r.lineHeight)),
      Line("editor.fontWeight", JsonString(NumberToString(r.fontWeight))),
      Line("editor.cursorStyle", JsonString(<<r.cursorStyle>>)),
      Line("editor.fontFamily",
           JsonString(<<"'", FontOf(r), "', 'Fira Code', Consolas, monospace">>))>>
    \o (IF ThemeOf(r) = undefined THEN <<>>
        ELSE <<Line("workbench.colorTheme", JsonString(<<Val(ThemeOf(r))>>))>>)

ZedConfig(r) ==
    <<Line("buffer_font_size", NumberToString(r.fontSize)),
      Line("buffer_line_height", <<"{">>),
      Line("custom", TenthsToString(r.lineHeight)),
      Line("", <<"}">>),
      Line("buffer_font_weight", NumberToString(r.fontWeight)),
      Line("cursor_shape", JsonString(<<r.cursorStyle>>)),
      Line("buffer_font_family", JsonString(<<FontOf(r)>>))>>
    \o (IF ThemeOf(r) = undefined THEN <<>>
        ELSE <<Line("theme", JsonString(<<Val(ThemeOf(r))>>))>>)

\* as NeovimConfig, but with the bar shape written for every cursor style
NeovimConfig_barOnly(r) ==
    <<Line("-- Vision-optimized settings", <<>>),
      Line("vim.opt.guifont",
           JsonString(<<FontOf(r), ":h">> \o NumberToString(r.fontSize))),
      Line("vim.opt.linespace",
           NumberToString(MathRound((r.lineHeight - 10) * r.fontSize, 10))),
      Line("vim.opt.guicursor", JsonString(<<"n-v-c:", "ver25">>)),
      IF ThemeOf(r) = undefined THEN Line("", <<>>)
      ELSE Line("vim.cmd", <<"(">> \o JsonString(<<"colorscheme ", Slug(Val(ThemeOf(r)))>>)
                           \o <<")">>)>>

NeovimConfig(r) ==
    <<Line("-- Vision-optimized settings", <<>>),
      Line("vim.opt.guifont",
           JsonString(<<FontOf(r), ":h">> \o NumberToString(r.fontSize))),
      Line("vim.opt.linespace",
           NumberToString(MathRound((r.lineHeight - 10) * r.fontSize, 10))),
      Line("vim.opt.guicursor",
           JsonString(<<"n-v-c:",
                        IF r.cursorStyle = "bar" THEN "ver25" ELSE r.cursorStyle>>)),
      IF ThemeOf(r) = undefined THEN Line("", <<>>)
      ELSE Line("vim.cmd", <<"(">> \o JsonString(<<"colorscheme ", Slug(Val(ThemeOf(r)))>>)
                           \o <<")">>)>>

\* as JetbrainsConfig, but ending after the colour scheme comment when there
\* is no theme
JetbrainsConfig_noBlank(r) ==
    <<Line("// JetBrains IDE Settings", <<>>),
      Line("// Settings -> Editor -> Font", <<>>),
      Line("Font", <<FontOf(r)>>),
      Line("Size", NumberToString(r.fontSize)),
      Line("Line spacing", TenthsToString(r.lineHeight)),
      Line("// Settings -> Editor -> Color Scheme", <<>>)>>
    \o (IF ThemeOf(r) = undefined THEN <<>>
        ELSE <<Line("Theme", <<Val(ThemeOf(r))>>)>>)

JetbrainsConfig(r) ==
    <<Line("// JetBrains IDE Settings", <<>>),
      Line("// Settings -> Editor -> Font", <<>>),
      Line("Font", <<FontOf(r)>>),
      Line("Size", NumberToString(r.fontSize)),
      Line("Line spacing", TenthsToString(r.lineHeight)),
      Line("// Settings -> Editor -> Color Scheme", <<>>),
      IF ThemeOf(r) = undefined THEN Line("", <<>>)
      ELSE Line("Theme", <<Val(ThemeOf(r))>>)>>

\* as SublimeConfig, but with the whole line space as each padding
SublimeConfig_wholeSpace(r) ==
    <<Line("font_face", JsonString(<<FontOf(r)>>)),
      Line("font_size", NumberToString(r.fontSize)),
      Line("line_padding_top",
           NumberToString(MathRound((r.lineHeight - 10) * r.fontSize, 10))),
      Line("line_padding_bottom",
           NumberToString(MathRound((r.lineHeight - 10) * r.fontSize, 10))),
      Line("caret_style",
           JsonString(<<IF r.cursorStyle = "block" THEN "solid" ELSE "smooth">>))>>
    \o (IF ThemeOf(r) = undefined THEN <<>>
        ELSE <<Line("color_scheme",
                    JsonString(<<"Packages/Theme/", Val(ThemeOf(r)), ".tmTheme">>))>>)

SublimeConfig(r) ==
    <<Line("font_face", JsonString(<<FontOf(r)>>)),
      Line("font_size", NumberToString(r.fontSize)),
      Line("line_padding_top",
           NumberToString(MathRound((r.lineHeight - 10) * r.fontSize, 20))),
      Line("line_padding_bottom",
           NumberToString(MathRound((r.lineHeight - 10) * r.fontSize, 20))),
      Line("caret_style",
           JsonString(<<IF r.cursorStyle = "block" THEN "solid" ELSE "smooth">>))>>
    \o (IF ThemeOf(r) = undefined THEN <<>>
        ELSE <<Line("color_scheme",
                    JsonString(<<"Packages/Theme/", Val(ThemeOf(r)), ".tmTheme">>))>>)

\* the default branch: a key whose value is undefined is left out
DefaultConfig(r) ==
    <<Line("fontSize", NumberToString(r.fontSize)),
      Line("lineHeight", TenthsToString(r.lineHeight)),
      Line("fontWeight", NumberToString(r.fontWeight)),
      Line("cursorStyle", JsonString(<<r.cursorStyle>>)),
      Line("font", JsonString(<<FontOf(r)>>))>>
    \o (IF ThemeOf(r) = undefined THEN <<>>
        ELSE <<Line("theme", JsonString(<<Val(ThemeOf(r))>>))>>)

generateEditorConfig(r, editor) ==
    CASE editor = "vscode" -> VscodeConfig(r)
      [] editor = "zed" -> ZedConfig(r)
      [] editor = "neovim" -> NeovimConfig(r)
      [] editor = "jetbrains" -> JetbrainsConfig(r)
      [] editor = "sublime" -> SublimeConfig(r)
      [] OTHER -> DefaultConfig(r)

-----------------------------------------------------------------------------
(* The caller: the Calibrator component's state and its memoised calls     *)

FormFields ==
    {"rightSphere", "rightCylinder", "rightAxis",
     "leftSphere", "leftCylinder", "leftAxis"}

\* the empty form of useState: parseFloat('') is NaN in every field
EmptyForm == [f \in FormFields |-> NaN]

NoConditions == [k \in ConditionKeys |-> FALSE]

\* the default CurrentSettings of useState
DefaultSettings == Some([fontSize |-> 14, lineHeight |-> 150, fontWeight |-> 400])

Settings(px) == Some([fontSize |-> px, lineHeight |-> 150, fontWeight |-> 400])

\* the sphere values entered, in quarter dioptres
SphereValues == {NaN, Some(-MaxSphere), Some(-24), Some(-2), Some(4)}

CylinderValues == {NaN, Some(-2)}

RightAxisValues == {NaN, Some(40), Some(90)}

LeftAxisValues == {NaN, Some(180)}

Form(rs, rc, ra, ls, lc, la) ==
    [rightSphere |-> rs, rightCylinder |-> rc, rightAxis |-> ra,
     leftSphere |-> ls, leftCylinder |-> lc, leftAxis |-> la]

\* forms that vary the spheres only
SphereForms ==
    {Form(rs, NaN, NaN, ls, NaN, NaN) : rs \in SphereValues, ls \in SphereValues}

\* forms that vary cylinders and axes; an axis is entered with its cylinder
CylinderForms ==
    {f \in {Form(rs, rc, ra, NaN, lc, la) :
                rs \in {Some(0), Some(-24)},
                rc \in CylinderValues, ra \in RightAxisValues,
                lc \in CylinderValues, la \in LeftAxisValues} :
        /\ (isNaN(f.rightCylinder) => isNaN(f.rightAxis))
        /\ (isNaN(f.leftCylinder) => isNaN(f.leftAxis))}

\* pairs of axes entered in the free-text fields, in degrees: their means
\* are 160, 159.5, 20.5, 70, 69.5, 110.5, 180 and 200
AxisPairs ==
    {<<140, 180>>, <<139, 180>>, <<21, 20>>, <<70, 70>>, <<69, 70>>,
     <<111, 110>>, <<180, 180>>, <<200, 200>>}

\* forms that vary the axes under a mean cylinder of -0.5
AxisForms ==
    {Form(Some(0), Some(-2), Some(a[1]), NaN, Some(-2), Some(a[2])) :
        a \in AxisPairs}

\* the current settings passed: none, below every result, inside the range
SettingsValues == {undefined, DefaultSettings, Settings(18)}

\* the engine's inputs besides the flags and the colour vision
EngineInputs ==
    {[form |-> f, settings |-> cs] : f \in SphereForms, cs \in SettingsValues}
    \cup {[form |-> f, settings |-> undefined] :
             f \in CylinderForms \cup AxisForms}

\* the theme arrays as the module is loaded
InitialThemes == [cv \in ColorVisionType |-> COLOR_VISION_THEMES[cv].themes]

\* suggestedThemes = colorConfig.themes: the list the engine took from the
\* table is the table's own array, so it holds what the table holds now; a
\* list of the engine's own making holds what the engine put into it
TableList(cv, themes) ==
    IF cv # "normal" /\ themes = COLOR_VISION_THEMES[cv].themes
    THEN themeTable[cv]
    ELSE themes

\* a render pass: both memoised values are recomputed from the state given
Rendered(c, cv, form, cs, editor) ==
    LET call == calculateRecommendations(c, cv, parsedPrescription(form), cs)
        result == [call.result EXCEPT !.suggestedThemes = TableList(cv, @)]
    IN  [conditions |-> call.conditions,
         recommendations |-> Some(result),
         configString |-> Some(generateEditorConfig(result, editor))]

\* as Render, but leaving in the record only the flags detected from the
\* prescription
Render_detectedOnly ==
    /\ calls < MaxCalls
    /\ LET r == Rendered(conditions, colorVision, prescription,
                         currentSettings, selectedEditor)
       IN  /\ conditions' = Rendered(NoConditions, colorVision, prescription,
                                     currentSettings, selectedEditor).conditions
           /\ recommendations' = r.recommendations
           /\ configString' = r.configString
    /\ calls' = calls + 1
    /\ UNCHANGED <<declared, colorVision, prescription, currentSettings,
                   selectedEditor, themeTable>>

\* the first render, or a render repeated on unchanged state (the memo
\* function runs again on the record the previous run left)
Render ==
    /\ calls < MaxCalls
    /\ LET r == Rendered(conditions, colorVision, prescription,
                         currentSettings, selectedEditor)
       IN  /\ conditions' = r.conditions
           /\ recommendations' = r.recommendations
           /\ configString' = r.configString
    /\ calls' = calls + 1
    /\ UNCHANGED <<declared, colorVision, prescription, currentSettings,
                   selectedEditor, themeTable>>

\* toggleCondition(key), then the render it causes
toggleCondition(key) ==
    /\ recommendations # undefined
    /\ LET r == Rendered([conditions EXCEPT ![key] = ~@], colorVision,
                         prescription, currentSettings, selectedEditor)
       IN  /\ conditions' = r.conditions
           /\ recommendations' = r.recommendations
           /\ configString' = r.configString
    /\ declared' = [declared EXCEPT ![key] = ~conditions[key]]
    /\ calls' = 1
    /\ UNCHANGED <<colorVision, prescription, currentSettings, selectedEditor,
                   themeTable>>

\* setPrescription on one field of the form, then the render it causes
setPrescription(field, value) ==
    /\ recommendations # undefined
    /\ prescription[field] # value
    /\ prescription' = [prescription EXCEPT ![field] = value]
    /\ LET r == Rendered(conditions, colorVision, prescription',
                         currentSettings, selectedEditor)
       IN  /\ conditions' = r.conditions
           /\ recommendations' = r.recommendations
           /\ configString' = r.configString
    /\ calls' = 1
    /\ UNCHANGED <<declared, colorVision, currentSettings, selectedEditor,
                   themeTable>>

\* setSelectedEditor(editor): only the configuration text is recomputed
setSelectedEditor(editor) ==
    /\ recommendations # undefined
    /\ selectedEditor # editor
    /\ selectedEditor' = editor
    /\ configString' = Some(generateEditorConfig(Val(recommendations), editor))
    /\ UNCHANGED <<conditions, declared, colorVision, prescription,
                   currentSettings, recommendations, calls, themeTable>>

-----------------------------------------------------------------------------
(* Specifications                                                          *)

\* The engine on its inputs: any flags, any colour vision, any of the
\* bounded prescriptions and current settings; nothing computed yet.
Init ==
    /\ conditions \in VisualConditions
    /\ declared = conditions
    /\ colorVision \in ColorVisionType
    /\ \E i \in EngineInputs :
          /\ prescription = i.form
          /\ currentSettings = i.settings
    /\ selectedEditor = "vscode"
    /\ recommendations = undefined
    /\ configString = undefined
    /\ calls = 0
    /\ themeTable = InitialThemes

Next == Render

Spec == Init /\ [][Next]_vars

-----------------------------------------------------------------------------
(* Properties of the engine                                                *)

Called == recommendations # undefined

Rec == Val(recommendations)

\* the prescription the engine is given
Parsed == parsedPrescription(prescription)

\* sum of the two spheres (twice their mean, in quarter dioptres), 0 when
\* no prescription is passed
SphereSum ==
    IF Parsed = undefined THEN 0
    ELSE Val(Parsed).rightEye.sphere + Val(Parsed).leftEye.sphere

\* sum of the two cylinders (twice their mean)
CylinderSum ==
    IF Parsed = undefined THEN 0
    ELSE Val(Parsed).rightEye.cylinder + Val(Parsed).leftEye.cylinder

\* a step in which the engine runs again on the arguments of its last run
SecondCall == calls >= 1 /\ calls' = calls + 1

\* C1 - Idempotence: a second call with the same arguments, on the
\* conditions record as the first call left it, returns a record equal to
\* the first one in every field.
C1_Idempotence == [][SecondCall => recommendations' = recommendations]_vars

\* the engine has run twice on a prescription that made it write a flag
C1_Witness ==
    /\ calls = 2
    /\ Called
    /\ conditions.myopia /\ ~declared.myopia
    /\ Len(Rec.explanations) >= 3

\* C3 - Monotonic floor: the returned fontSize is at least 16 and the
\* returned lineHeight at least 1.5 (15 tenths).
C3_MonotonicFloor == Called => Rec.fontSize >= 16 /\ Rec.lineHeight >= 15

\* a call that returns both floors although a rule has fired
C3_Witness ==
    /\ Called
    /\ conditions.lightSensitivity
    /\ Rec.fontSize = 16 /\ Rec.lineHeight = 15

\* C4 - Light-sensitivity precedence: with blurOrGhosting and
\* lightSensitivity both true the returned fontWeight is 400.
C4_LightSensitivityPrecedence ==
    (Called /\ conditions.blurOrGhosting /\ conditions.lightSensitivity)
        => Rec.fontWeight = 400

\* blur and light sensitivity together with every other flag, a colour
\* vision type, a prescription and current settings
C4_Witness ==
    /\ Called
    /\ \A k \in ConditionKeys : conditions[k]
    /\ colorVision = "tritanopia"
    /\ Parsed # undefined
    /\ currentSettings # undefined
    /\ Rec.fontWeight = 400

\* number of themes of each colour vision type
ThemeCount ==
    [normal |-> 0, deuteranopia |-> 5, protanopia |-> 4, tritanopia |-> 4,
     achromatopsia |-> 3]

\* C5 - Theme exclusivity: suggestedThemes is non-empty iff colorVision is
\* not normal, and it is the table entry of that type, in order (5, 4, 4
\* and 3 themes), whatever the flags, prescription and current settings.
C5_ThemeExclusivity ==
    Called =>
        /\ (Len(Rec.suggestedThemes) > 0 <=> colorVision # "normal")
        /\ Rec.suggestedThemes = COLOR_VISION_THEMES[colorVision].themes
        /\ Len(Rec.suggestedThemes) = ThemeCount[colorVision]

\* the five deuteranopia themes returned next to a full set of flags
C5_Witness ==
    /\ Called
    /\ colorVision = "deuteranopia"
    /\ Len(Rec.suggestedThemes) = 5
    /\ conditions.visualCrowding /\ conditions.astigmatism
    /\ Parsed # undefined

\* no flag declared, and no prescription or one inside the thresholds
NothingToDetect ==
    /\ \A k \in ConditionKeys : ~declared[k]
    /\ \/ Parsed = undefined
       \/ /\ SphereSum >= -4 /\ SphereSum <= 4
          /\ Abs(CylinderSum) < 4

\* C6 - Baseline: with no flag true after auto-detection and normal colour
\* vision the engine returns 16, 1.5, 400, bar and two empty lists.
C6_Baseline ==
    (Called /\ NothingToDetect /\ colorVision = "normal") =>
        /\ Rec.fontSize = 16
        /\ Rec.lineHeight = 15
        /\ Rec.fontWeight = 400
        /\ Rec.cursorStyle = "bar"
        /\ Rec.suggestedFonts = <<>>
        /\ Rec.suggestedThemes = <<>>

\* the baseline returned for a prescription of mean sphere exactly -0.5
C6_Witness ==
    /\ Called
    /\ NothingToDetect
    /\ colorVision = "normal"
    /\ Parsed # undefined
    /\ SphereSum = -4
    /\ Rec.fontSize = 16

\* C7 - Prescription auto-detection: a call with a prescription leaves
\* myopia true iff it was true or mean sphere < -0.5, hyperopia true iff it
\* was true or mean sphere > 0.5, astigmatism true iff it was true or
\* |mean cylinder| >= 0.5, and the same call's rules see the flags so left
\* (block cursor for myopia, line height >= 1.6 for hyperopia, the six
\* fonts for astigmatism).
C7_AutoDetection ==
    [][(calls' = calls + 1 /\ Parsed # undefined) =>
          /\ conditions'.myopia <=> (conditions.myopia \/ SphereSum < -4)
          /\ conditions'.hyperopia <=> (conditions.hyperopia \/ SphereSum > 4)
          /\ conditions'.astigmatism <=>
                (conditions.astigmatism \/ Abs(CylinderSum) >= 4)
          /\ conditions'.myopia => Val(recommendations').cursorStyle = "block"
          /\ conditions'.hyperopia => Val(recommendations').lineHeight >= 16
          /\ conditions'.astigmatism =>
                Len(Val(recommendations').suggestedFonts) = 6]_vars

\* astigmatism detected at exactly 0.5 of mean cylinder and acted upon
C7_Witness ==
    /\ Called
    /\ Parsed # undefined
    /\ Abs(CylinderSum) = 4
    /\ ~declared.astigmatism /\ conditions.astigmatism
    /\ Len(Rec.suggestedFonts) = 6

\* the myopia tier in px for a sum of spheres
MyopiaTier(sum) == IF sum <= -48 THEN 20 ELSE IF sum <= -24 THEN 18 ELSE 17

\* C8 - Myopia tiers: when myopia is true after auto-detection the cursor
\* is block and, with no hyperopia, eye strain or blur, fontSize is 20 for
\* mean sphere <= -6, 18 for -6 < mean <= -3 and 17 otherwise, the mean
\* being 0 without a prescription; both spheres -7 with no flag declared
\* give 20 and block.
C8_MyopiaTiers ==
    (Called /\ conditions.myopia) =>
        /\ Rec.cursorStyle = "block"
        /\ (~conditions.hyperopia /\ ~conditions.eyeStrain
                /\ ~conditions.blurOrGhosting)
              => Rec.fontSize = MyopiaTier(SphereSum)
        /\ (Parsed = undefined /\ ~conditions.eyeStrain
                /\ ~conditions.blurOrGhosting) => Rec.fontSize = 17
        /\ (/\ Parsed # undefined
            /\ Val(Parsed).rightEye.sphere = -28
            /\ Val(Parsed).leftEye.sphere = -28
            /\ declared = NoConditions)
              => Rec.fontSize = 20

\* myopia detected from a mean sphere of exactly -6: the 20 px tier
C8_Witness ==
    /\ Called
    /\ ~declared.myopia /\ conditions.myopia
    /\ SphereSum = -48
    /\ Rec.fontSize = 20
    /\ Rec.cursorStyle = "block"

-----------------------------------------------------------------------------
(* The component as mounted: one conditions record reused by every call    *)

\* what is typed into a field of the form
EnteredValues(field) ==
    IF field \in {"rightSphere", "leftSphere"} THEN {NaN, Some(-MaxSphere)}
    ELSE IF field \in {"rightCylinder", "leftCylinder"} THEN CylinderValues
    ELSE {NaN, Some(90)}

\* the state of the useState calls, before the first render
InitCaller ==
    /\ conditions = NoConditions
    /\ declared = NoConditions
    /\ colorVision = "normal"
    /\ prescription = EmptyForm
    /\ currentSettings = DefaultSettings
    /\ selectedEditor = "vscode"
    /\ recommendations = undefined
    /\ configString = undefined
    /\ calls = 0
    /\ themeTable = InitialThemes

NextCaller ==
    \/ Render
    \/ \E key \in ConditionKeys : toggleCondition(key)
    \/ \E field \in FormFields :
          \E value \in EnteredValues(field) : setPrescription(field, value)

SpecCaller == InitCaller /\ [][NextCaller]_vars

\* C2 - Independence of invocations: over any sequence of calls that reuse
\* one conditions record, each call returns what a single call on a fresh
\* record holding the flags the caller declared would return for the same
\* colorVision, prescription and currentSettings.
C2_Independence ==
    Called =>
        Rec = calculateRecommendations(declared, colorVision, Parsed,
                                       currentSettings).result

-----------------------------------------------------------------------------
(* The serializer on the engine's results                                  *)

\* prescriptions that bring out the three myopia tiers
ConfigForms ==
    {EmptyForm,
     Form(Some(-MaxSphere), NaN, NaN, Some(-MaxSphere), NaN, NaN),
     Form(Some(-24), NaN, NaN, NaN, NaN, NaN)}

\* any flags and colour vision, the default editor, nothing computed yet
InitConfig ==
    /\ conditions \in VisualConditions
    /\ declared = conditions
    /\ colorVision \in ColorVisionType
    /\ prescription \in ConfigForms
    /\ currentSettings = DefaultSettings
    /\ selectedEditor = "vscode"
    /\ recommendations = undefined
    /\ configString = undefined
    /\ calls = 0
    /\ themeTable = InitialThemes

NextConfig ==
    \/ Render
    \/ \E editor \in EditorType : setSelectedEditor(editor)

SpecConfig == InitConfig /\ [][NextConfig]_vars

\* the fields of a recommendation that generateEditorConfig reads
ConfigFields ==
    {"fontSize", "lineHeight", "fontWeight", "cursorStyle", "suggestedFonts",
     "suggestedThemes"}

NumericFields == {"fontSize", "lineHeight", "fontWeight", "cursorStyle"}

ConfigPart(r) == [f \in ConfigFields |-> r[f]]

FourOf(r) == [f \in NumericFields |-> r[f]]

\* what the engine can return on the inputs of InitConfig, restricted to
\* the fields the serializer reads
Producible ==
    {ConfigPart(calculateRecommendations(c, cv, parsedPrescription(form),
                                         DefaultSettings).result) :
        c \in VisualConditions, cv \in ColorVisionType, form \in ConfigForms}

\* r1 and r2 differ in field f and in no other field the serializer reads
DifferOnlyIn(r1, r2, f) ==
    /\ r1[f] # r2[f]
    /\ \A g \in ConfigFields \ {f} : r1[g] = r2[g]

\* the value of a decimal digit character
DigitValue(ch) == CHOOSE d \in 0..9 : DigitChars[d + 1] = ch

\* the natural number spelled by a sequence of digit characters
RECURSIVE ParseDigits(_)
ParseDigits(chars) ==
    IF Len(chars) = 0 THEN 0
    ELSE 10 * ParseDigits(SubSeq(chars, 1, Len(chars) - 1))
         + DigitValue(chars[Len(chars)])

\* position of the decimal point in a numeral, 0 if it has none
PointAt(chars) ==
    IF \E i \in 1..Len(chars) : chars[i] = "."
    THEN CHOOSE i \in 1..Len(chars) : chars[i] = "."
    ELSE 0

\* the number read from a numeral, in tenths
ParseTenths(chars) ==
    IF PointAt(chars) = 0 THEN 10 * ParseDigits(chars)
    ELSE 10 * ParseDigits(SubSeq(chars, 1, PointAt(chars) - 1))
         + ParseDigits(SubSeq(chars, PointAt(chars) + 1, Len(chars)))

\* the characters of a JSON string literal
Unquote(chars) == SubSeq(chars, 2, Len(chars) - 1)

\* the value under a key of a text
ValueOf(text, key) ==
    text[CHOOSE i \in 1..Len(text) : text[i].key = key].value

ParseVscode(text) ==
    [fontSize |-> ParseDigits(ValueOf(text, "editor.fontSize")),
     lineHeight |-> ParseTenths(ValueOf(text, "editor.lineHeight")),
     fontWeight |-> ParseDigits(Unquote(ValueOf(text, "editor.fontWeight"))),
     cursorStyle |-> Unquote(ValueOf(text, "editor.cursorStyle"))[1]]

ParseZed(text) ==
    [fontSize |-> ParseDigits(ValueOf(text, "buffer_font_size")),
     lineHeight |-> ParseTenths(ValueOf(text, "custom")),
     fontWeight |-> ParseDigits(ValueOf(text, "buffer_font_weight")),
     cursorStyle |-> Unquote(ValueOf(text, "cursor_shape"))[1]]

\* what a sublime text gives back: the size, and the cursor among the two
\* styles the engine returns
ParseSublime(text) ==
    [fontSize |-> ParseDigits(ValueOf(text, "font_size")),
     cursorStyle |->
        IF Unquote(ValueOf(text, "caret_style"))[1] = "solid"
        THEN "block" ELSE "bar"]

StructuredEditors == {"vscode", "zed", "sublime"}

Config == Val(configString)

\* C9 as stated - Round-trip: for vscode, zed and sublime the text
\* determines fontSize, lineHeight, fontWeight and cursorStyle: no other
\* recommendation the engine can produce renders to the same text with a
\* different value of one of the four.
C9_RoundTripAll ==
    (Called /\ selectedEditor \in StructuredEditors) =>
        \A r \in Producible :
            generateEditorConfig(r, selectedEditor) = Config
                => FourOf(r) = FourOf(Rec)

\* C9 as amended - parsing the vscode and the zed text gives back
\* fontSize, lineHeight, fontWeight and cursorStyle; parsing the sublime
\* text gives back fontSize and cursorStyle.
C9_RoundTrip ==
    Called =>
        /\ selectedEditor = "vscode" => ParseVscode(Config) = FourOf(Rec)
        /\ selectedEditor = "zed" => ParseZed(Config) = FourOf(Rec)
        /\ selectedEditor = "sublime" =>
              ParseSublime(Config) =
                  [fontSize |-> Rec.fontSize, cursorStyle |-> Rec.cursorStyle]

\* a zed text of a result with a raised weight, line height and size
C9_Witness ==
    /\ Called
    /\ selectedEditor = "zed"
    /\ Rec.fontWeight = 500
    /\ Rec.lineHeight = 17
    /\ Rec.fontSize = 22
    /\ ParseZed(Config).fontWeight = 500

\* the fields among the four that the text of an editor is built from
FieldsRead(editor) ==
    CASE editor = "vscode" -> NumericFields
      [] editor = "zed" -> NumericFields
      [] editor = "neovim" -> {"fontSize", "lineHeight", "cursorStyle"}
      [] editor = "jetbrains" -> {"fontSize", "lineHeight"}
      [] editor = "sublime" -> {"fontSize", "lineHeight", "cursorStyle"}

\* two results the engine can produce differ in f only and render
\* differently for the editor
TextDependsOn(editor, f) ==
    \E r1, r2 \in Producible :
        /\ DifferOnlyIn(r1, r2, f)
        /\ generateEditorConfig(r1, editor) # generateEditorConfig(r2, editor)

\* for each editor, the fields among the four on which its text depends
DerivedFields ==
    [editor \in EditorType |->
        {f \in NumericFields : TextDependsOn(editor, f)}]

\* C10 as stated - every one of the five editor outputs derives from all
\* four fields: whichever editor is selected, for each of fontSize,
\* lineHeight, fontWeight and cursorStyle two producible recommendations
\* differ only in that field and render differently.
C10_AllFieldsDerived ==
    Called => DerivedFields[selectedEditor] = NumericFields

\* C10 as amended - vscode and zed derive from all four fields, neovim and
\* sublime from fontSize, lineHeight and cursorStyle, jetbrains from
\* fontSize and lineHeight: for these fields two producible recommendations
\* differ only in the field and render differently, and for the others
\* (fontWeight in neovim, jetbrains and sublime, cursorStyle in jetbrains)
\* every producible recommendation that differs from the rendered one in
\* that field only renders to the same text.
C10_FieldsDerived ==
    Called =>
        /\ DerivedFields[selectedEditor] = FieldsRead(selectedEditor)
        /\ \A f \in NumericFields \ FieldsRead(selectedEditor) :
              \A r \in Producible :
                  DifferOnlyIn(r, ConfigPart(Rec), f)
                      => generateEditorConfig(r, selectedEditor) = Config

\* a jetbrains text of a result of weight 500 that has a producible
\* counterpart of weight 400
C10_Witness ==
    /\ Called
    /\ selectedEditor = "jetbrains"
    /\ Rec.fontWeight = 500
    /\ \E r \in Producible : DifferOnlyIn(r, ConfigPart(Rec), "fontWeight")

-----------------------------------------------------------------------------
(* The theme in the configuration texts                                    *)

\* the key under which a structured format holds the theme
ThemeKey(editor) ==
    CASE editor = "vscode" -> "workbench.colorTheme"
      [] editor = "zed" -> "theme"
      [] editor = "sublime" -> "color_scheme"

\* the value a structured format holds for a theme
ThemeValue(editor, theme) ==
    IF editor = "sublime"
    THEN JsonString(<<"Packages/Theme/", theme, ".tmTheme">>)
    ELSE JsonString(<<theme>>)

\* the positions of the lines of a text that have the key
LinesWithKey(text, key) == {i \in 1..Len(text) : text[i].key = key}

\* values that stand for nothing: no characters, an empty string, null
Placeholders == {<<>>, <<Quote, Quote>>, <<"null">>}

\* C11 - Theme key omission in the structured formats: for vscode, zed and
\* sublime the text holds the theme key (workbench.colorTheme, theme,
\* color_scheme) if and only if suggestedThemes is non-empty, then once and
\* with the value built from the first suggested theme; no line of the text
\* holds an empty or null value in its place.
C11_ThemeKeyOmission ==
    (Called /\ selectedEditor \in StructuredEditors) =>
        LET at == LinesWithKey(Config, ThemeKey(selectedEditor))
        IN  /\ (at # {} <=> Len(Rec.suggestedThemes) > 0)
            /\ Cardinality(at) <= 1
            /\ \A i \in at :
                  Config[i].value =
                      ThemeValue(selectedEditor, Rec.suggestedThemes[1])
            /\ \A i \in 1..Len(Config) : Config[i].value \notin Placeholders

\* a sublime text with the colour scheme of the first of five themes
C11_Witness ==
    /\ Called
    /\ selectedEditor = "sublime"
    /\ Len(Rec.suggestedThemes) = 5
    /\ LinesWithKey(Config, "color_scheme") # {}

\* the editors whose text is a template of lines
TemplateEditors == {"neovim", "jetbrains"}

\* the key of the theme line of a template
ThemeLineKey(editor) ==
    CASE editor = "neovim" -> "vim.cmd"
      [] editor = "jetbrains" -> "Theme"

\* the characters of the theme line of a template
ThemeLineValue(editor, theme) ==
    IF editor = "neovim"
    THEN <<"(">> \o JsonString(<<"colorscheme ", Slug(theme)>>) \o <<")">>
    ELSE <<theme>>

\* the number of lines of a template before the theme's place
NonThemeLines(editor) ==
    CASE editor = "neovim" -> 4
      [] editor = "jetbrains" -> 6

\* a line with no characters
EmptyLine == Line("", <<>>)

\* the positions of the empty lines of a text
EmptyLines(text) == {i \in 1..Len(text) : text[i] = EmptyLine}

\* a theme exists: the text is the non-theme lines and one theme line, the
\* last, built from the first suggested theme
OneThemeLine ==
    LET at == LinesWithKey(Config, ThemeLineKey(selectedEditor))
    IN  /\ at = {Len(Config)}
        /\ Len(Config) = NonThemeLines(selectedEditor) + 1
        /\ Config[Len(Config)].value =
              ThemeLineValue(selectedEditor, Rec.suggestedThemes[1])
        /\ EmptyLines(Config) = {}

\* C12 as stated - for neovim and jetbrains, when suggestedThemes is empty
\* the text is exactly the non-theme lines, with no theme line and no empty
\* line in its place; when a theme exists the text has exactly one theme
\* line.
C12_NothingForTheme ==
    (Called /\ selectedEditor \in TemplateEditors) =>
        IF Len(Rec.suggestedThemes) = 0
        THEN /\ LinesWithKey(Config, ThemeLineKey(selectedEditor)) = {}
             /\ EmptyLines(Config) = {}
             /\ Len(Config) = NonThemeLines(selectedEditor)
        ELSE OneThemeLine

\* C12 as amended - for neovim and jetbrains, when suggestedThemes is empty
\* the text has no theme line: it is the non-theme lines followed by one
\* empty line in the theme's place; when a theme exists the text has
\* exactly one theme line, the last, and no empty line.
C12_BlankForTheme ==
    (Called /\ selectedEditor \in TemplateEditors) =>
        IF Len(Rec.suggestedThemes) = 0
        THEN /\ LinesWithKey(Config, ThemeLineKey(selectedEditor)) = {}
             /\ EmptyLines(Config) = {Len(Config)}
             /\ Len(Config) = NonThemeLines(selectedEditor) + 1
        ELSE OneThemeLine

\* a jetbrains text of a result without themes
C12_Witness ==
    /\ Called
    /\ selectedEditor = "jetbrains"
    /\ Len(Rec.suggestedThemes) = 0
    /\ Len(Config) = 7

-----------------------------------------------------------------------------
(* generateEditorConfig called with any identifier                         *)

\* identifiers that are none of the five editors
OtherIdentifiers == {"emacs", "helix"}

\* a caller of the exported function that passes any string as the editor
NextAnyEditor ==
    \/ Render
    \/ \E editor \in EditorType \cup OtherIdentifiers : setSelectedEditor(editor)

SpecAnyEditor == InitConfig /\ [][NextAnyEditor]_vars

\* the keys of the lines of a text, in order
KeysOf(text) == [i \in 1..Len(text) |-> text[i].key]

\* C13 - Graceful fallback: for an editor identifier outside the five,
\* generateEditorConfig returns a text, the generic dump: the keys
\* fontSize, lineHeight, fontWeight, cursorStyle and font, followed by theme
\* exactly when suggestedThemes is non-empty; the values read back are those
\* of the recommendation, font being the first suggested font or "JetBrains
\* Mono" when there is none, theme the first suggested theme.
C13_GracefulFallback ==
    (Called /\ selectedEditor \notin EditorType) =>
        /\ configString # undefined
        /\ KeysOf(Config) =
              <<"fontSize", "lineHeight", "fontWeight", "cursorStyle", "font">>
              \o (IF Len(Rec.suggestedThemes) = 0 THEN <<>> ELSE <<"theme">>)
        /\ ParseDigits(ValueOf(Config, "fontSize")) = Rec.fontSize
        /\ ParseTenths(ValueOf(Config, "lineHeight")) = Rec.lineHeight
        /\ ParseDigits(ValueOf(Config, "fontWeight")) = Rec.fontWeight
        /\ Unquote(ValueOf(Config, "cursorStyle")) = <<Rec.cursorStyle>>
        /\ Unquote(ValueOf(Config, "font")) =
              IF Len(Rec.suggestedFonts) = 0 THEN <<"JetBrains Mono">>
              ELSE <<Rec.suggestedFonts[1]>>
        /\ Len(Rec.suggestedThemes) > 0 =>
              Unquote(ValueOf(Config, "theme")) = <<Rec.suggestedThemes[1]>>

\* the dump for an unknown identifier of a result with no font and no theme
C13_Witness ==
    /\ Called
    /\ selectedEditor = "emacs"
    /\ Len(Rec.suggestedFonts) = 0
    /\ Len(Rec.suggestedThemes) = 0
    /\ Len(Config) = 5

-----------------------------------------------------------------------------
(* The current settings                                                    *)

\* the fields of a result besides the explanations
SettledFields ==
    {"fontSize", "lineHeight", "fontWeight", "cursorStyle", "suggestedFonts",
     "suggestedThemes", "research"}

\* an explanation is the comparison with the current font size
IsComparison(e) == e.text = "Your current font size is below the recommended"

\* the positions of the comparison entries of a list of explanations
Comparisons(es) == {i \in 1..Len(es) : IsComparison(es[i])}

IsNotComparison(e) == ~IsComparison(e)

\* a list of explanations without its comparison entries
WithoutComparison(es) == SelectSeq(es, IsNotComparison)

\* the result of the same call with other current settings
WithSettings(cs) ==
    calculateRecommendations(declared, colorVision, Parsed, cs).result

\* C14 - currentSettings never seeds the recommendation: the call with any
\* other current settings (none included) returns the same fontSize,
\* lineHeight, fontWeight, cursorStyle, suggestedFonts, suggestedThemes and
\* research, and the same explanations but for the comparison entry; that
\* entry is there, once, exactly when currentSettings is given with a
\* fontSize below the computed one, and it is the last but one, before the
\* 20-20-20 reminder.
C14_SettingsNeverSeed ==
    Called =>
        /\ \A cs \in SettingsValues :
              LET other == WithSettings(cs)
              IN  /\ \A f \in SettledFields : other[f] = Rec[f]
                  /\ WithoutComparison(other.explanations)
                         = WithoutComparison(Rec.explanations)
        /\ Comparisons(Rec.explanations) =
              IF /\ currentSettings # undefined
                 /\ Val(currentSettings).fontSize < Rec.fontSize
              THEN {Len(Rec.explanations) - 1}
              ELSE {}
        /\ Rec.explanations[Len(Rec.explanations)].text
               = "Remember the 20-20-20 rule"

\* current settings of 18 px against a computed size of 20 px: the
\* comparison entry is there, and absent from the call without settings
C14_Witness ==
    /\ Called
    /\ currentSettings = Settings(18)
    /\ Rec.fontSize = 20
    /\ Comparisons(Rec.explanations) # {}
    /\ Comparisons(WithSettings(undefined).explanations) = {}

-----------------------------------------------------------------------------
(* The frame of a call                                                     *)

\* the flags the engine may set from a prescription
DetectedKeys == {"myopia", "hyperopia", "astigmatism"}

\* C15 - Frame of the condition amendment: a call changes nothing in its
\* arguments except that, with a prescription, myopia, hyperopia and
\* astigmatism may go from false to true: no flag goes from true to false,
\* eyeStrain, blurOrGhosting, lightSensitivity and visualCrowding keep
\* their values, the prescription and the current settings are unchanged,
\* and without a prescription the conditions record is unchanged.
C15_Frame ==
    [][(calls' = calls + 1) =>
          /\ \A k \in ConditionKeys : conditions[k] => conditions'[k]
          /\ \A k \in ConditionKeys \ DetectedKeys :
                conditions'[k] = conditions[k]
          /\ prescription' = prescription
          /\ currentSettings' = currentSettings
          /\ colorVision' = colorVision
          /\ (Parsed = undefined => conditions' = conditions)]_vars

\* after a call with a prescription: myopia set by the call, the declared
\* eye strain and the undeclared blur as they were
C15_Witness ==
    /\ Called
    /\ Parsed # undefined
    /\ ~declared.myopia /\ conditions.myopia
    /\ declared.eyeStrain /\ conditions.eyeStrain
    /\ ~declared.blurOrGhosting /\ ~conditions.blurOrGhosting

-----------------------------------------------------------------------------
(* The blur/ghosting rule                                                  *)

\* the result of the same call with the blurOrGhosting flag false
WithoutBlur ==
    calculateRecommendations([declared EXCEPT !.blurOrGhosting = FALSE],
                             colorVision, Parsed, currentSettings).result

\* C16 - Blur/ghosting rule: with blurOrGhosting true and lightSensitivity
\* false the result has fontWeight 500 and a block cursor, and its fontSize
\* is exactly 1 more than that of the same input with blurOrGhosting false.
C16_BlurRule ==
    (Called /\ declared.blurOrGhosting /\ ~declared.lightSensitivity) =>
        /\ Rec.fontWeight = 500
        /\ Rec.cursorStyle = "block"
        /\ Rec.fontSize = WithoutBlur.fontSize + 1

\* blur on top of high myopia and eye strain: 22 px against 21 px
C16_Witness ==
    /\ Called
    /\ declared.blurOrGhosting /\ ~declared.lightSensitivity
    /\ declared.eyeStrain
    /\ Rec.fontSize = 22
    /\ WithoutBlur.fontSize = 21
    /\ WithoutBlur.cursorStyle = "block"

-----------------------------------------------------------------------------
(* The axis note                                                           *)

\* twice the mean of the two axes in degrees, 0 without a prescription
AxisSum ==
    IF Parsed = undefined THEN 0
    ELSE Val(Parsed).rightEye.axis + Val(Parsed).leftEye.axis

\* the astigmatism entries of the explanations
AstigmatismNotes ==
    {i \in 1..Len(Rec.explanations) : Rec.explanations[i].text = "Astigmatism"}

\* the prescription with both axes set to 0
AxesCleared ==
    IF Parsed = undefined THEN undefined
    ELSE Some([Val(Parsed) EXCEPT !.rightEye.axis = 0, !.leftEye.axis = 0])

\* the result of the same call with both axes 0
WithoutAxes ==
    calculateRecommendations(declared, colorVision, AxesCleared,
                             currentSettings).result

\* with astigmatism, one note of the class given; the axes change none of
\* the values and lists
AxisNoteIs(class) ==
    /\ Cardinality(AstigmatismNotes) = 1
    /\ \A i \in AstigmatismNotes : Rec.explanations[i].name = class
    /\ (Parsed = undefined /\ declared.astigmatism) => class = "with-the-rule"
    /\ LET other == WithoutAxes
       IN  \A f \in SettledFields : other[f] = Rec[f]

\* C17 as stated - Axis classification: with astigmatism true after
\* auto-detection one axis note is chosen from the mean of the two axes (0
\* without a prescription): with-the-rule for a mean in [160,180] or
\* [0,20], against-the-rule in [70,110], oblique otherwise; the axes never
\* affect fontSize, lineHeight, fontWeight, cursorStyle, suggestedFonts or
\* suggestedThemes.
C17_AxisIntervals ==
    (Called /\ conditions.astigmatism) =>
        AxisNoteIs(IF \/ (AxisSum >= 320 /\ AxisSum <= 360)
                      \/ (AxisSum >= 0 /\ AxisSum <= 40)
                   THEN "with-the-rule"
                   ELSE IF AxisSum >= 140 /\ AxisSum <= 220
                   THEN "against-the-rule"
                   ELSE "oblique")

\* C17 as amended - with astigmatism true after auto-detection one axis
\* note is chosen from the mean of the two axes (0 without a prescription):
\* with-the-rule for a mean of 160 or more or of 20 or less, against-the-rule
\* in [70,110], oblique otherwise; the axes never affect fontSize,
\* lineHeight, fontWeight, cursorStyle, suggestedFonts or suggestedThemes.
C17_AxisClassification ==
    (Called /\ conditions.astigmatism) =>
        AxisNoteIs(IF AxisSum >= 320 \/ AxisSum <= 40
                   THEN "with-the-rule"
                   ELSE IF AxisSum >= 140 /\ AxisSum <= 220
                   THEN "against-the-rule"
                   ELSE "oblique")

\* astigmatism detected from the cylinders, axes of mean 159.5: the note
\* is the oblique one
C17_Witness ==
    /\ Called
    /\ ~declared.astigmatism /\ conditions.astigmatism
    /\ AxisSum = 319
    /\ \E i \in AstigmatismNotes : Rec.explanations[i].name = "oblique"

-----------------------------------------------------------------------------
(* The neovim text                                                         *)

\* the number written as linespace
Linespace == ParseDigits(ValueOf(Config, "vim.opt.linespace"))

\* C18 - Neovim mapping: the neovim text sets linespace to
\* round((lineHeight - 1) * fontSize), the nearest integer with halves
\* upwards, writes guifont as the chosen font with height fontSize, and
\* writes the cursor as n-v-c:ver25 for the bar and as n-v-c: followed by
\* the cursor style otherwise.
C18_NeovimMapping ==
    (Called /\ selectedEditor = "neovim") =>
        /\ 10 * (2 * Linespace - 1) <= 2 * (Rec.lineHeight - 10) * Rec.fontSize
        /\ 2 * (Rec.lineHeight - 10) * Rec.fontSize < 10 * (2 * Linespace + 1)
        /\ Unquote(ValueOf(Config, "vim.opt.guifont")) =
              <<IF Len(Rec.suggestedFonts) = 0 THEN "JetBrains Mono"
                ELSE Rec.suggestedFonts[1], ":h">>
              \o Digits(Rec.fontSize)
        /\ Unquote(ValueOf(Config, "vim.opt.guicursor")) =
              <<"n-v-c:",
                IF Rec.cursorStyle = "bar" THEN "ver25" ELSE Rec.cursorStyle>>

\* the neovim text of 17 px at line height 1.5 with a block cursor: the
\* product 8.5 is written as 9
C18_Witness ==
    /\ Called
    /\ selectedEditor = "neovim"
    /\ Rec.fontSize = 17
    /\ Rec.lineHeight = 15
    /\ Rec.cursorStyle = "block"
    /\ Linespace = 9

-----------------------------------------------------------------------------
(* The order of the two logs                                               *)

\* a sequence when the condition holds, nothing otherwise
When(cond, seq) == IF cond THEN seq ELSE <<>>

\* the sources of a list of citations, in order
SourcesOf(research) == [i \in 1..Len(research) |-> research[i].source]

\* the sources of the citations of the rules whose condition holds, in the
\* order of the rules
ExpectedSources ==
    When(conditions.myopia, <<"Wang K, et al. BMJ Open Ophthalmology">>)
    \o When(conditions.astigmatism,
            <<"PMC6181807 - Astigmatic axis and visual acuity",
              "Rosenfield M. Ophthalmic and Physiological Optics">>)
    \o When(conditions.eyeStrain,
            <<"Nanotechnology Perceptions - Font Size and Accommodation">>)
    \o When(conditions.visualCrowding,
            <<"Chung STL. Optometry and Vision Science">>)
    \o When(colorVision # "normal",
            <<"WCAG 2.1 / Interaction Design Foundation">>)
    \o <<"Nielsen Norman Group / Journal of Experimental Psychology">>

\* the rule that writes an explanation
RuleOf(e) ==
    CASE e.text \in {"High myopia", "Moderate myopia", "Mild myopia detected",
                     "Block cursor recommended"} -> "myopia"
      [] e.text = "Hyperopia detected" -> "hyperopia"
      [] e.text = "Astigmatism" -> "astigmatism"
      [] e.text = "Eye strain" -> "eyeStrain"
      [] e.text \in {"Blur/ghosting", "Blur/ghosting with light sensitivity"}
            -> "blurOrGhosting"
      [] e.text = "Light sensitivity" -> "lightSensitivity"
      [] e.text = "Visual crowding" -> "visualCrowding"
      [] IsComparison(e) -> "currentSettings"
      [] e.text = "Remember the 20-20-20 rule" -> "reminder"
      [] OTHER -> "colorVision"

\* the rules of a list of explanations, in order
RulesOf(explanations) ==
    [i \in 1..Len(explanations) |-> RuleOf(explanations[i])]

\* the rules whose condition holds, in their order, each as many times as
\* it writes an explanation
ExpectedRules ==
    When(conditions.myopia, <<"myopia", "myopia">>)
    \o When(conditions.hyperopia, <<"hyperopia">>)
    \o When(conditions.astigmatism, <<"astigmatism">>)
    \o When(conditions.eyeStrain, <<"eyeStrain">>)
    \o When(conditions.blurOrGhosting, <<"blurOrGhosting">>)
    \o When(conditions.lightSensitivity, <<"lightSensitivity">>)
    \o When(conditions.visualCrowding, <<"visualCrowding">>)
    \o When(colorVision # "normal", <<"colorVision">>)
    \o When(Comparisons(Rec.explanations) # {}, <<"currentSettings">>)
    \o <<"reminder">>

\* C19 - Log order: research is exactly the citations of myopia,
\* astigmatism (two), eye strain, visual crowding, colour vision (not
\* normal) and line height (always) whose condition holds after
\* auto-detection, in that order; hyperopia, blur/ghosting and light
\* sensitivity add none; the explanations follow the order of the rules
\* and end with the 20-20-20 reminder; neither list is empty.
C19_LogOrder ==
    Called =>
        /\ SourcesOf(Rec.research) = ExpectedSources
        /\ RulesOf(Rec.explanations) = ExpectedRules
        /\ Rec.explanations[Len(Rec.explanations)].text
               = "Remember the 20-20-20 rule"
        /\ Len(Rec.research) > 0
        /\ Len(Rec.explanations) > 0

\* every rule has written: seven citations, and explanations of hyperopia,
\* blur and light sensitivity among the others
C19_Witness ==
    /\ Called
    /\ \A k \in ConditionKeys : conditions[k]
    /\ colorVision = "tritanopia"
    /\ Len(Rec.research) = 7
    /\ Len(Rec.explanations) >= 10

-----------------------------------------------------------------------------
(* The values after each rule                                              *)

\* fontSize and lineHeight, in hundredths, at the start and after each rule
\* in its order; the last entry is the returned, rounded pair
RuleSteps(c, cv, p) ==
    LET s0 == InitialValues
        s1 == MyopiaRule(s0, c, p)
        s2 == HyperopiaRule(s1, c)
        s3 == AstigmatismRule(s2, c, p)
        s4 == EyeStrainRule(s3, c)
        s5 == BlurOrGhostingRule(s4, c)
        s6 == LightSensitivityRule(s5, c)
        s7 == VisualCrowdingRule(s6, c)
        s8 == ColorVisionRule(s7, cv)
        r == Recommendation(s8)
        pair(s) == [fontSize |-> s.fontSize, lineHeight |-> s.lineHeight]
    IN  <<pair(s0), pair(s1), pair(s2), pair(s3), pair(s4), pair(s5),
          pair(s6), pair(s7), pair(s8),
          [fontSize |-> 100 * r.fontSize, lineHeight |-> 10 * r.lineHeight]>>

\* the steps of the call that gave the result
Steps == RuleSteps(conditions, colorVision, Parsed)

\* C20 - Step-wise monotonicity: over the rules in their order (myopia,
\* hyperopia, astigmatism, eye strain, blur/ghosting, light sensitivity,
\* visual crowding, colour vision, final rounding), starting from 16 and
\* 1.5 and ending in the returned values, no step lowers fontSize and no
\* step lowers lineHeight.
C20_StepwiseMonotone ==
    Called =>
        LET steps == Steps
        IN  /\ steps[1] = [fontSize |-> 1600, lineHeight |-> 150]
            /\ Len(steps) = 10
            /\ \A i \in 1..9 :
                  /\ steps[i + 1].fontSize >= steps[i].fontSize
                  /\ steps[i + 1].lineHeight >= steps[i].lineHeight
            /\ steps[10] =
                  [fontSize |-> 100 * Rec.fontSize,
                   lineHeight |-> 10 * Rec.lineHeight]

\* hyperopia declared next to a prescription of high myopia: the hyperopia
\* step keeps the 20 px of the myopia step and raises the line height
C20_Witness ==
    /\ Called
    /\ conditions.myopia /\ conditions.hyperopia
    /\ Steps[2].fontSize = 2000
    /\ Steps[3] = [fontSize |-> 2000, lineHeight |-> 160]
    /\ Rec.fontSize >= 20

-----------------------------------------------------------------------------
(* The font weight through the rules                                       *)

\* fontWeight at the start and after each rule in its order
WeightSteps(c, cv, p) ==
    LET s0 == InitialValues
        s1 == MyopiaRule(s0, c, p)
        s2 == HyperopiaRule(s1, c)
        s3 == AstigmatismRule(s2, c, p)
        s4 == EyeStrainRule(s3, c)
        s5 == BlurOrGhostingRule(s4, c)
        s6 == LightSensitivityRule(s5, c)
        s7 == VisualCrowdingRule(s6, c)
        s8 == ColorVisionRule(s7, cv)
    IN  <<s0.fontWeight, s1.fontWeight, s2.fontWeight, s3.fontWeight,
          s4.fontWeight, s5.fontWeight, s6.fontWeight, s7.fontWeight,
          s8.fontWeight>>

\* on the flags c, the blur/ghosting rule leaves the weight 500 and the
\* light-sensitivity rule turns it into 400
RaisedThenReset(c) ==
    LET w == WeightSteps(c, colorVision, Parsed)
    IN  w[5] = 400 /\ w[6] = 500 /\ w[7] = 400

\* C21 as stated - fontWeight can be raised and then forced back down:
\* for some flags the blur/ghosting rule raises fontWeight to 500 and the
\* light-sensitivity rule resets it to 400 within the same computation.
C21_RaisedThenReset ==
    Called => \E c \in VisualConditions : RaisedThenReset(c)

\* C21 as amended - fontWeight is never raised and then lowered within one
\* computation: the blur/ghosting rule raises it to 500 exactly when
\* blurOrGhosting is true and lightSensitivity false, in which case the
\* light-sensitivity rule does not run; with both flags the weight is 400
\* before and after both rules; no rule lowers the weight, and the weight
\* after the last rule is the one returned.
C21_NeverRaisedThenReset ==
    Called =>
        LET w == WeightSteps(conditions, colorVision, Parsed)
        IN  /\ w[1] = 400
            /\ \A i \in 1..8 : w[i + 1] >= w[i]
            /\ w[6] = 500 <=>
                  (conditions.blurOrGhosting /\ ~conditions.lightSensitivity)
            /\ w[7] = w[6]
            /\ Rec.fontWeight = w[9]
            /\ (conditions.lightSensitivity => Rec.fontWeight = 400)
            /\ ~RaisedThenReset(conditions)

\* both rules have run: the weight is 400 after the blur/ghosting rule
C21_Witness ==
    /\ Called
    /\ conditions.blurOrGhosting /\ conditions.lightSensitivity
    /\ WeightSteps(conditions, colorVision, Parsed)[6] = 400
    /\ Rec.fontWeight = 400
    /\ Rec.cursorStyle = "block"

-----------------------------------------------------------------------------
(* The returned values as functions of the flags                           *)

\* 1 when the flag holds after auto-detection, 0 otherwise
OneIf(flag) == IF flag THEN 1 ELSE 0

\* the myopia tier when myopia holds after auto-detection, 16 otherwise
TierOrBase == IF conditions.myopia THEN MyopiaTier(SphereSum) ELSE 16

\* C22 - Font-size formula: the returned fontSize is
\* max(T, 17 if hyperopia else T) + (1 if eyeStrain) + (1 if blurOrGhosting),
\* T being the myopia tier (20, 18 or 17) when myopia holds after
\* auto-detection and 16 otherwise; hyperopia never lowers a tier of 18 or
\* 20, and eye strain adds exactly 1.
C22_FontSizeFormula ==
    Called =>
        /\ Rec.fontSize =
              Max(TierOrBase, IF conditions.hyperopia THEN 17 ELSE TierOrBase)
              + OneIf(conditions.eyeStrain)
              + OneIf(conditions.blurOrGhosting)
        /\ (conditions.hyperopia /\ TierOrBase >= 18)
              => Rec.fontSize >= TierOrBase

\* hyperopia declared next to a detected moderate myopia, with eye strain
\* and no blur: 18 + 1
C22_Witness ==
    /\ Called
    /\ conditions.myopia /\ conditions.hyperopia
    /\ conditions.eyeStrain /\ ~conditions.blurOrGhosting
    /\ TierOrBase = 18
    /\ Rec.fontSize = 19

\* the flags that hold after auto-detection
FlagsSet == {k \in ConditionKeys : conditions[k]}

\* C23 - Astigmatism rule: whenever astigmatism is true after
\* auto-detection, lineHeight is at least 1.6 and suggestedFonts is the
\* six-entry list IBM Plex Mono, JetBrains Mono, Fira Code, Input Mono,
\* Atkinson Hyperlegible Mono, Source Code Pro, in this order, with or
\* without visualCrowding; with astigmatism as the only condition
\* lineHeight is exactly 1.6.
C23_AstigmatismRule ==
    (Called /\ conditions.astigmatism) =>
        /\ Rec.lineHeight >= 16
        /\ Rec.suggestedFonts =
              <<"IBM Plex Mono", "JetBrains Mono", "Fira Code", "Input Mono",
                "Atkinson Hyperlegible Mono", "Source Code Pro">>
        /\ FlagsSet = {"astigmatism"} => Rec.lineHeight = 16

\* astigmatism detected from the cylinders next to visual crowding: the
\* six fonts at line height 1.7
C23_Witness ==
    /\ Called
    /\ ~declared.astigmatism /\ conditions.astigmatism
    /\ conditions.visualCrowding
    /\ Len(Rec.suggestedFonts) = 6
    /\ Rec.lineHeight = 17

\* C24 - Visual-crowding rule: lineHeight is 1.7 if and only if
\* visualCrowding is true; otherwise it is 1.6 when hyperopia, astigmatism
\* or eyeStrain holds and 1.5 when none does; with visualCrowding true and
\* astigmatism false after auto-detection suggestedFonts is the first three
\* entries of the font list (IBM Plex Mono, JetBrains Mono, Fira Code), and
\* with neither flag it is empty.
C24_VisualCrowdingRule ==
    Called =>
        /\ Rec.lineHeight =
              IF conditions.visualCrowding THEN 17
              ELSE IF \/ conditions.hyperopia
                      \/ conditions.astigmatism
                      \/ conditions.eyeStrain
              THEN 16
              ELSE 15
        /\ (conditions.visualCrowding /\ ~conditions.astigmatism)
              => Rec.suggestedFonts =
                     <<"IBM Plex Mono", "JetBrains Mono", "Fira Code">>
        /\ (~conditions.visualCrowding /\ ~conditions.astigmatism)
              => Rec.suggestedFonts = <<>>

\* visual crowding without astigmatism, on top of a detected hyperopia:
\* three fonts at line height 1.7
C24_Witness ==
    /\ Called
    /\ conditions.visualCrowding /\ ~conditions.astigmatism
    /\ ~declared.hyperopia /\ conditions.hyperopia
    /\ Len(Rec.suggestedFonts) = 3
    /\ Rec.lineHeight = 17

-----------------------------------------------------------------------------
(* The sublime text                                                        *)

\* the number written under a key of the sublime text
PaddingOf(key) == ParseDigits(ValueOf(Config, key))

\* C25 - Sublime mapping: the sublime text has line_padding_top and
\* line_padding_bottom both equal to round((lineHeight - 1) * fontSize / 2),
\* the nearest integer with halves upwards, and caret_style "solid" for the
\* block cursor and "smooth" for every other cursor style.
C25_SublimeMapping ==
    (Called /\ selectedEditor = "sublime") =>
        LET top == PaddingOf("line_padding_top")
        IN  /\ PaddingOf("line_padding_bottom") = top
            /\ 20 * (2 * top - 1) <= 2 * (Rec.lineHeight - 10) * Rec.fontSize
            /\ 2 * (Rec.lineHeight - 10) * Rec.fontSize < 20 * (2 * top + 1)
            /\ Unquote(ValueOf(Config, "caret_style")) =
                  <<IF Rec.cursorStyle = "block" THEN "solid" ELSE "smooth">>

\* the sublime text of 18 px at line height 1.5 with a block cursor: the
\* half 4.5 is written as 5
C25_Witness ==
    /\ Called
    /\ selectedEditor = "sublime"
    /\ Rec.fontSize = 18
    /\ Rec.lineHeight = 15
    /\ Rec.cursorStyle = "block"
    /\ PaddingOf("line_padding_top") = 5

\* C26 - Output ranges: the returned fontSize is a whole number in 16..22,
\* lineHeight is one of 1.5, 1.6 and 1.7, fontWeight is 400 or 500 and
\* cursorStyle is bar or block, never underline; the final rounding changes
\* neither fontSize nor lineHeight.
C26_OutputRanges ==
    Called =>
        LET steps == Steps
        IN  /\ Rec.fontSize \in 16..22
            /\ Rec.lineHeight \in {15, 16, 17}
            /\ Rec.fontWeight \in {400, 500}
            /\ Rec.cursorStyle \in {"bar", "block"}
            /\ steps[9] = steps[10]
            /\ steps[10] = [fontSize |-> 100 * Rec.fontSize,
                            lineHeight |-> 10 * Rec.lineHeight]

\* the largest values together: 22 px, 1.7, 500, block
C26_Witness ==
    /\ Called
    /\ Rec.fontSize = 22
    /\ Rec.lineHeight = 17
    /\ Rec.fontWeight = 500
    /\ Rec.cursorStyle = "block"

\* C27 - Cursor characterisation: the returned cursorStyle is block if and
\* only if myopia is true after auto-detection or blurOrGhosting is true,
\* and bar otherwise; the returned fontWeight is 500 if and only if
\* blurOrGhosting is true and lightSensitivity is false, and 400 otherwise.
C27_CursorCharacterisation ==
    Called =>
        /\ Rec.cursorStyle =
              IF conditions.myopia \/ conditions.blurOrGhosting
              THEN "block" ELSE "bar"
        /\ Rec.fontWeight =
              IF conditions.blurOrGhosting /\ ~conditions.lightSensitivity
              THEN 500 ELSE 400

\* blur without myopia and without light sensitivity: block and 500
C27_Witness ==
    /\ Called
    /\ ~conditions.myopia
    /\ conditions.blurOrGhosting /\ ~conditions.lightSensitivity
    /\ Rec.cursorStyle = "block"
    /\ Rec.fontWeight = 500
    /\ Rec.fontSize = 17

-----------------------------------------------------------------------------
(* A caller that edits the returned lists in place                         *)

\* recommendations.suggestedThemes.shift(): the list is the table's own
\* array (suggestedThemes = colorConfig.themes), so the table loses the
\* entry too; the memoised text is not recomputed
shiftSuggestedThemes ==
    /\ recommendations # undefined
    /\ Len(Val(recommendations).suggestedThemes) > 0
    /\ recommendations' =
          Some([Val(recommendations) EXCEPT !.suggestedThemes = Tail(@)])
    /\ themeTable' = [themeTable EXCEPT ![colorVision] = Tail(@)]
    /\ UNCHANGED <<conditions, declared, colorVision, prescription,
                   currentSettings, selectedEditor, configString, calls>>

\* recommendations.suggestedFonts.shift(): the list is a copy
\* ([...ASTIGMATISM_FRIENDLY_FONTS] or .slice(0, 3)), nothing else changes
shiftSuggestedFonts ==
    /\ recommendations # undefined
    /\ Len(Val(recommendations).suggestedFonts) > 0
    /\ recommendations' =
          Some([Val(recommendations) EXCEPT !.suggestedFonts = Tail(@)])
    /\ UNCHANGED <<conditions, declared, colorVision, prescription,
                   currentSettings, selectedEditor, configString, calls,
                   themeTable>>

NextTables ==
    \/ Render
    \/ shiftSuggestedThemes
    \/ shiftSuggestedFonts

SpecTables == InitConfig /\ [][NextTables]_vars

\* the font list the rules give for the flags
FontsFor(c) ==
    IF c.astigmatism THEN ASTIGMATISM_FRIENDLY_FONTS
    ELSE IF c.visualCrowding THEN SubSeq(ASTIGMATISM_FRIENDLY_FONTS, 1, 3)
    ELSE <<>>

\* C28 - Table isolation: the lists returned in suggestedThemes and
\* suggestedFonts are not shared with the engine's tables: whatever the
\* caller has done to the lists of earlier results, a call returns the
\* fixed theme list of its colorVision and the fixed font list of its
\* flags.
C28_TableIsolation ==
    [][(calls' = calls + 1) =>
          /\ Val(recommendations').suggestedThemes
                 = COLOR_VISION_THEMES[colorVision].themes
          /\ Val(recommendations').suggestedFonts = FontsFor(conditions')]_vars

-----------------------------------------------------------------------------
(* handleGenerate                                                          *)

\* the record handleGenerate builds from the flags and the text of the
\* form: every field is parseFloat(...) || 0
newConditions(c, form) ==
    LET avg == OrZero(form.rightSphere) + OrZero(form.leftSphere)
        cylOrAxis ==
            \/ OrZero(form.rightAxis) > 0
            \/ OrZero(form.leftAxis) > 0
            \/ OrZero(form.rightCylinder) # 0
            \/ OrZero(form.leftCylinder) # 0
    IN  [c EXCEPT
            !.myopia = IF avg < -4 /\ ~c.myopia THEN TRUE ELSE @,
            !.hyperopia = IF avg > 4 /\ ~c.hyperopia THEN TRUE ELSE @,
            !.astigmatism = IF cylOrAxis /\ ~c.astigmatism THEN TRUE ELSE @]

\* handleGenerate: setConditions(newConditions), then the render it causes
handleGenerate ==
    /\ recommendations # undefined
    /\ LET r == Rendered(newConditions(conditions, prescription), colorVision,
                         prescription, currentSettings, selectedEditor)
       IN  /\ conditions' = r.conditions
           /\ recommendations' = r.recommendations
           /\ configString' = r.configString
    /\ declared' = newConditions(conditions, prescription)
    /\ calls' = 1
    /\ UNCHANGED <<colorVision, prescription, currentSettings, selectedEditor,
                   themeTable>>

NextGenerate ==
    \/ Render
    \/ \E field \in FormFields :
          \E value \in EnteredValues(field) : setPrescription(field, value)
    \/ handleGenerate

SpecGenerate == InitCaller /\ [][NextGenerate]_vars

\* C29 - Caller/engine agreement on auto-detection: for every text of the
\* form, the flags handleGenerate turns on in the conditions record are
\* the flags calculateRecommendations turns on in the same record for the
\* prescription parsed from that text, also when neither sphere parses.
C29_CallerEngineAgreement ==
    Called => newConditions(conditions, prescription)
                  = AutoDetect(conditions, Parsed)

====
